---- MODULE Spec2Model ----
(***************************************************************************)
(* A model of BatteryModel (src/battery_model.py): the constructor, reset, *)
(* compute_power, step, the two schedule lookups and the simulate loop.    *)
(*                                                                         *)
(* Numbers.  Physical quantities are fixed point integers:                 *)
(*   SOC in ppm (1000000 = 1.0), temperatures in milli degrees C, power in *)
(*   mW, current in mA, capacity in mAh, voltage in microvolt, brightness  *)
(*   and cpu_load in thousandths.  A division rounds to nearest, as a      *)
(*   binary64 division does at its own resolution, and a result beyond     *)
(*   +-Sat saturates (the model's stand-in for a very large float).  NaN   *)
(*   and the infinities are not values of the model.                       *)
(* The loop variable t of simulate, the duration and the segment bounds    *)
(* are IEEE-754 binary64 values, kept bit for bit: t += dt_s is a          *)
(* correctly rounded addition (round to nearest, ties to even), because    *)
(* the number of iterations of `while t < duration_s` depends on it.       *)
(***************************************************************************)
EXTENDS Integers, Sequences, FiniteSets, TLC

(***************************************************************************)
(* Bounds of the model.                                                    *)
(***************************************************************************)
\* step and simulate calls made on one object
MaxCalls == 2
\* iterations of the simulate loop that are followed (a loop that never
\* ends is followed this far and no further)
MaxIter == 10

(***************************************************************************)
(* Fixed point arithmetic.                                                 *)
(***************************************************************************)
\* magnitude at which a fixed point value saturates
Sat == 100000000

Abs(x) == IF x < 0 THEN 0 - x ELSE x

Sign(x) == IF x < 0 THEN 0 - 1 ELSE 1

Max2(a, b) == IF a >= b THEN a ELSE b

Min2(a, b) == IF a <= b THEN a ELSE b

SatAdd(a, b) == Max2(0 - Sat, Min2(Sat, a + b))

SatMul(a, b) ==
    IF a = 0 \/ b = 0 THEN 0
    ELSE IF Abs(a) > Sat \div Abs(b) THEN Sign(a) * Sign(b) * Sat
    ELSE a * b

\* a / c rounded to nearest (ties away from zero); c # 0
RDiv(a, c) ==
    Sign(a) * Sign(c) * ((Abs(a) + Abs(c) \div 2) \div Abs(c))

\* one step of the long division below, for the next three bits of b:
\* g is 8 * remainder + digit * (a % c), h is digit * (a \div c)
MulDivDigit(s, g, h, c) ==
    [q |-> Min2(Sat, 8 * s.q + h + g \div c), r |-> g % c]

MulDivStep(s, digit, a, c) ==
    MulDivDigit(s, 8 * s.r + digit * (a % c), digit * (a \div c), c)

\* a * b divided by c for naturals a, b < 8^9 and 0 < c <= Sat: the
\* quotient (saturated) and the remainder, three bits of b at a time so
\* that no intermediate goes beyond 32 bits
MulDivNat(a, b, c) ==
    MulDivStep(
     MulDivStep(
      MulDivStep(
       MulDivStep(
        MulDivStep(
         MulDivStep(
          MulDivStep(
           MulDivStep(
            MulDivStep([q |-> 0, r |-> 0], (b \div 16777216) % 8, a, c),
            (b \div 2097152) % 8, a, c),
           (b \div 262144) % 8, a, c),
          (b \div 32768) % 8, a, c),
         (b \div 4096) % 8, a, c),
        (b \div 512) % 8, a, c),
       (b \div 64) % 8, a, c),
      (b \div 8) % 8, a, c),
     b % 8, a, c)

\* the quotient m.q rounded to nearest on the remainder m.r, with its sign
MulDivRound(m, c, sign) ==
    sign * SatAdd(m.q, IF 2 * m.r >= c THEN 1 ELSE 0)

\* a * b / c rounded to nearest (ties away from zero), saturated; c # 0
MulDiv(a, b, c) ==
    MulDivRound(MulDivNat(Abs(a), Abs(b), Min2(Abs(c), Sat)),
                Min2(Abs(c), Sat), Sign(a) * Sign(b) * Sign(c))

(***************************************************************************)
(* math.exp on fixed point: x in thousandths, the result in thousandths.   *)
(***************************************************************************)
\* e^n in thousandths for n = -7 .. 11; below it the result is 0 at this
\* resolution, above it the result saturates
ExpTable ==
    << 1, 2, 7, 18, 50, 135, 368, 1000, 2718, 7389, 20086, 54598, 148413, 403429, 1096633, 2980958, 8103084, 22026466, 59874142 >>

\* e^(f/1000) in thousandths for 0 <= f < 1000, by its Taylor series
ExpFrac(f) ==
    LET t2 == (f * f) \div 2000
        t3 == (t2 * f) \div 3000
        t4 == (t3 * f) \div 4000
        t5 == (t4 * f) \div 5000
        t6 == (t5 * f) \div 6000
        t7 == (t6 * f) \div 7000
    IN  1000 + f + t2 + t3 + t4 + t5 + t6 + t7

ExpMilli(x) ==
    LET n == IF x >= 0 THEN x \div 1000 ELSE 0 - ((999 - x) \div 1000)
        f == x - 1000 * n
    IN  IF n > 11 THEN Sat
        ELSE IF n < 0 - 7 THEN 0
        ELSE MulDiv(ExpTable[n + 8], ExpFrac(f), 1000)

(***************************************************************************)
(* IEEE-754 binary64 values >= 0 (normal range).  The value of             *)
(* [exp |-> e, hi |-> h, lo |-> l] is (h * 2^27 + l) * 2^(e - 52): the 53  *)
(* bits of the significand are the 26 bits of hi (its leading bit set)     *)
(* and the 27 bits of lo.  Zero is hi = lo = 0.                            *)
(***************************************************************************)
Pow2Table ==
    << 1, 2, 4, 8, 16, 32, 64, 128, 256, 512, 1024, 2048, 4096, 8192, 16384,
       32768, 65536, 131072, 262144, 524288, 1048576, 2097152, 4194304,
       8388608, 16777216, 33554432, 67108864, 134217728, 268435456,
       536870912, 1073741824 >>

Pow2(k) == Pow2Table[k + 1]

FZero == [exp |-> 0, hi |-> 0, lo |-> 0]

FIsZero(a) == a.hi = 0

\* what is left of a shift where bits were lost: a sticky lowest bit
Sticky(w) ==
    [hi |-> w.hi, lo |-> IF w.lost /\ w.lo % 2 = 0 THEN w.lo + 1 ELSE w.lo]

\* the 56 bit number hi * 2^30 + lo shifted right by sh places; the bits
\* shifted out are kept as a sticky lowest bit
ShiftRightSticky(hi, lo, sh) ==
    Sticky(IF sh = 0 THEN [hi |-> hi, lo |-> lo, lost |-> FALSE]
           ELSE IF sh < 30
           THEN [hi   |-> hi \div Pow2(sh),
                 lo   |-> (lo \div Pow2(sh)) + (hi % Pow2(sh)) * Pow2(30 - sh),
                 lost |-> lo % Pow2(sh) # 0]
           ELSE IF sh < 56
           THEN [hi   |-> 0,
                 lo   |-> hi \div Pow2(sh - 30),
                 lost |-> lo # 0 \/ hi % Pow2(sh - 30) # 0]
           ELSE [hi |-> 0, lo |-> 0, lost |-> hi # 0 \/ lo # 0])

\* the significand hi * 2^27 + lo1 after rounding, where lo1 may have
\* carried out of its 27 bits and hi out of its 26
Carry(hi, lo1, e) ==
    IF lo1 < 134217728 THEN [exp |-> e, hi |-> hi, lo |-> lo1]
    ELSE IF hi + 1 < 67108864 THEN [exp |-> e, hi |-> hi + 1, lo |-> 0]
    ELSE [exp |-> e + 1, hi |-> 33554432, lo |-> 0]

\* round to nearest, ties to even, on the three bits `rest` below `keep`
RoundEven(keep, rest) ==
    IF rest > 4 \/ (rest = 4 /\ keep % 2 = 1) THEN keep + 1 ELSE keep

\* hi * 2^30 + lo (53 bits and three more below them), leading exponent e,
\* rounded to nearest, ties to even
RoundGRS(hi, lo, e) == Carry(hi, RoundEven(lo \div 8, lo % 8), e)

\* the rounded sum, from its 56 bits before normalisation
FAddNormal(hi, lo, e) ==
    IF hi >= 67108864
    THEN RoundGRS(ShiftRightSticky(hi, lo, 1).hi,
                  ShiftRightSticky(hi, lo, 1).lo, e + 1)
    ELSE RoundGRS(hi, lo, e)

\* big + the smaller operand s, already shifted to big's exponent
FAddAligned(big, s) ==
    FAddNormal(big.hi + s.hi + (big.lo * 8 + s.lo) \div 1073741824,
               (big.lo * 8 + s.lo) % 1073741824, big.exp)

\* big + sml for big.exp >= sml.exp
FAddOrdered(big, sml) ==
    FAddAligned(big,
                ShiftRightSticky(sml.hi, sml.lo * 8, big.exp - sml.exp))

\* a + b, correctly rounded
FAdd(a, b) ==
    IF FIsZero(a) THEN b
    ELSE IF FIsZero(b) THEN a
    ELSE IF a.exp >= b.exp THEN FAddOrdered(a, b)
    ELSE FAddOrdered(b, a)

\* a < b
FLess(a, b) ==
    IF FIsZero(b) THEN FALSE
    ELSE IF FIsZero(a) THEN TRUE
    ELSE \/ a.exp < b.exp
         \/ a.exp = b.exp /\ a.hi < b.hi
         \/ a.exp = b.exp /\ a.hi = b.hi /\ a.lo < b.lo

\* a <= b
FLeq(a, b) == ~FLess(b, a)

\* the binary exponent of n/d: the k with 2^k <= n/d < 2^(k+1)
\* (0 < n, d < 8192)
FloatExp(n, d) ==
    CHOOSE k \in (0 - 13)..13 :
        IF k >= 0 THEN Pow2(k) * d <= n /\ n < Pow2(k + 1) * d
        ELSE d <= Pow2(0 - k) * n /\ Pow2(0 - k) * n < 2 * d

\* the next 13 bits of the quotient r / dd, and what remains
Chunk(r, dd) == (r * 8192) \div dd

Rest(r, dd) == (r * 8192) % dd

\* the 53 bit quotient from its leading one, its four chunks of 13 bits
\* and the last remainder r4: rounded to nearest, ties to even
FloatPack(c1, c2, low, r4, dd, k) ==
    RoundGRS(33554432 + c1 * 4096 + c2 \div 2,
             low * 8 + (IF 2 * r4 > dd \/ (2 * r4 = dd /\ low % 2 = 1)
                        THEN 6 ELSE 0),
             k)

FloatChunks(c1, c2, c3, c4, r4, dd, k) ==
    FloatPack(c1, c2, (c2 % 2) * 67108864 + c3 * 8192 + c4, r4, dd, k)

\* nn / dd for dd <= nn < 2 * dd, as a binary64 with exponent k
FloatDivide(nn, dd, k) ==
    FloatChunks(Chunk(nn - dd, dd),
                Chunk(Rest(nn - dd, dd), dd),
                Chunk(Rest(Rest(nn - dd, dd), dd), dd),
                Chunk(Rest(Rest(Rest(nn - dd, dd), dd), dd), dd),
                Rest(Rest(Rest(Rest(nn - dd, dd), dd), dd), dd),
                dd, k)

FloatScaled(n, d, k) ==
    FloatDivide(IF k < 0 THEN Pow2(0 - k) * n ELSE n,
                IF k > 0 THEN Pow2(k) * d ELSE d, k)

\* the binary64 value of the decimal literal n/d (0 <= n < 8192,
\* 0 < d < 8192) as Python reads it: n/d divided out to 53 bits, 13 bits
\* at a time after the leading one, and rounded to nearest, ties to even
FloatOf(n, d) ==
    IF n = 0 THEN FZero ELSE FloatScaled(n, d, FloatExp(n, d))

(***************************************************************************)
(* Python values: an optional value (a missing dictionary key or a None    *)
(* argument) is [has |-> FALSE]; dict.get(key, default) is Get.            *)
(***************************************************************************)
Some(v) == [has |-> TRUE, v |-> v]

NoInt == [has |-> FALSE, v |-> 0]

NoBool == [has |-> FALSE, v |-> FALSE]

NoFloat == [has |-> FALSE, v |-> FZero]

Get(o, default) == IF o.has THEN o.v ELSE default

(***************************************************************************)
(* The inputs the model draws from.                                        *)
(***************************************************************************)
\* the constructor's defaults
DefaultParams ==
    [Q_Ah |-> 3800, V_nom |-> 3850000, T_ref |-> 25000, k_temp |-> 20,
     P_base |-> 200, P_screen_base |-> 300, P_screen_exp |-> 1,
     P_cpu_idle |-> 100, P_cpu_peak |-> 900, P_network |-> 250,
     P_gps |-> 40, P_background |-> 50, P_cpu_exp |-> 1,
     C_th |-> 600, h |-> 5, T_env_init |-> 25000]

ParamSets ==
    { DefaultParams,
      [DefaultParams EXCEPT !.Q_Ah = 0],
      [DefaultParams EXCEPT !.Q_Ah = 0 - 3800],
      [DefaultParams EXCEPT !.V_nom = 0],
      [DefaultParams EXCEPT !.C_th = 0] }

Usage(b, c, n, g, k) ==
    [brightness |-> Some(b), cpu_load |-> Some(c), network |-> Some(n),
     gps |-> Some(g), background |-> Some(k)]

UHigh == Usage(900, 800, TRUE, TRUE, TRUE)

ULow == Usage(400, 300, TRUE, FALSE, TRUE)

\* a brightness far below the intended range: the sum of the powers is < 0
UNeg == Usage(0 - 10000, 0, FALSE, FALSE, FALSE)

\* the empty dictionary
UEmpty ==
    [brightness |-> NoInt, cpu_load |-> NoInt, network |-> NoBool,
     gps |-> NoBool, background |-> NoBool]

NoUsage == [has |-> FALSE, v |-> UEmpty]

Ratio(n, d) == [n |-> n, d |-> d]

StepDts == {Ratio(0 - 60, 1), Ratio(0, 1), Ratio(60, 1), Ratio(300, 1)}

StepUsages == {UHigh, UNeg}

StepAmbients == {NoInt, Some(40000)}

ResetSocs == {0 - 500000, 1000000, 1500000}

ResetTemps == {NoInt, Some(25000), Some(150000)}

USeg(s, e, u) == [start |-> s, end |-> e, usage |-> u]

ASeg(s, e, a) == [start |-> s, end |-> e, ambient_T |-> a]

Sec(n) == Some(FloatOf(n, 1))

UsageNone == [kind |-> "none"]

UsageList(segs) == [kind |-> "list", segs |-> segs]

\* two adjacent segments, as in demo_run.py
UsageTwo ==
    UsageList(<< USeg(Sec(0), Sec(60), Some(UHigh)),
                 USeg(Sec(60), Sec(120), Some(ULow)) >>)

\* not sorted by start, the third overlapping the other two, and nothing
\* from 120 on
UsageOverlap ==
    UsageList(<< USeg(Sec(60), Sec(120), Some(ULow)),
                 USeg(Sec(0), Sec(60), Some(UHigh)),
                 USeg(Sec(0), Sec(120), Some(UNeg)) >>)

\* segments with missing keys: no "end", no "start", no "usage"
UsageOpen ==
    UsageList(<< USeg(Sec(60), NoFloat, Some(UEmpty)),
                 USeg(NoFloat, Sec(60), NoUsage) >>)

AmbientNone == [kind |-> "none"]

AmbientList(segs) == [kind |-> "list", segs |-> segs]

AmbientFloat(v) == [kind |-> "float", v |-> v]

AmbientDict(a) == [kind |-> "dict", ambient_T |-> a]

AmbientConst == AmbientList(<< ASeg(Sec(0), Sec(120), Some(25000)) >>)

\* the ambient changes during the run; nothing covers t >= 120
AmbientSteps ==
    AmbientList(<< ASeg(Sec(0), Sec(60), Some(40000)),
                   ASeg(Sec(60), Sec(120), Some(10000)) >>)

\* one segment with no key at all
AmbientOpen == AmbientList(<< ASeg(NoFloat, NoFloat, NoInt) >>)

SimCall(dur, dt, us, as) ==
    [op |-> "simulate", duration_s |-> dur, dt_s |-> dt,
     usage_schedule |-> us, ambient_schedule |-> as]

SimCalls ==
    { SimCall(Ratio(120, 1), Ratio(60, 1), UsageTwo, AmbientConst),
      SimCall(Ratio(150, 1), Ratio(60, 1), UsageOverlap, AmbientSteps),
      SimCall(Ratio(8, 10), Ratio(1, 10), UsageNone, AmbientNone),
      SimCall(Ratio(60, 1), Ratio(0, 1), UsageList(<< >>),
              AmbientList(<< >>)),
      SimCall(Ratio(120, 1), Ratio(60, 1), UsageOpen, AmbientFloat(30000)),
      SimCall(Ratio(120, 1), Ratio(60, 1), UsageNone,
              AmbientDict(Some(35000))),
      SimCall(Ratio(60, 1), Ratio(60, 1), UsageTwo, AmbientOpen),
      SimCall(Ratio(0, 1), Ratio(60, 1), UsageTwo, AmbientDict(NoInt)) }

(***************************************************************************)
(* The state: the object's fields, the position of the caller, the locals  *)
(* of a running simulate, and what the last call was and returned.         *)
(***************************************************************************)
VARIABLES
    pc,                 \* "new": not constructed, "idle", "sim": in the loop
    par,                \* the constructor's parameters (never reassigned)
    SOC, T, T_env,      \* self.SOC, self.T, self.T_env
    last_p_components,  \* self._last_p_components
    t, traj,            \* simulate's t and its seventeen lists
    call,               \* the last call made
    before,             \* the call made before it, for a step or a
                        \* simulate
    ret,                \* what it returned or raised
    pre,                \* SOC, T and T_env when it was made, for a step
                        \* or a simulate
    calls,              \* step and simulate calls made
    phase, saved        \* progress through reset(1.0); simulate(a);
                        \* reset(1.0); simulate(a) (1 to 4, else 0), and
                        \* the first simulate of the four with its result

vars ==
    << pc, par, SOC, T, T_env, last_p_components, t, traj, call, before,
       ret, pre, calls, phase, saved >>

NoComps == [has |-> FALSE]

NoTraj ==
    [time_s |-> << >>, SOC |-> << >>, temp_C |-> << >>, P_W |-> << >>,
     I_A |-> << >>, Q_eff_Ah |-> << >>, brightness |-> << >>,
     cpu_load |-> << >>, network |-> << >>, gps |-> << >>,
     background |-> << >>, ambient_T |-> << >>, P_screen_W |-> << >>,
     P_CPU_W |-> << >>, P_network_W |-> << >>, P_GPS_W |-> << >>,
     P_background_W |-> << >>]

NoRet == [kind |-> "none"]

NoSaved == [call |-> [op |-> "none"], ret |-> NoRet]

Raised(e) == [kind |-> "raise", exc |-> e]

Snapshot == [SOC |-> SOC, T |-> T, T_env |-> T_env]

NoSnapshot == [SOC |-> 0, T |-> 0, T_env |-> 0]

(***************************************************************************)
(* compute_power                                                           *)
(***************************************************************************)
\* b ** e for b in thousandths and a whole exponent e
Power(b, e) ==
    IF e = 0 THEN 1000
    ELSE IF e = 1 THEN b
    ELSE RDiv(b * b, 1000)

\* the five component powers, as stored in _last_p_components
\* the components with the processor term scaled from zero, not from idle
ComponentsPeakScaled(p, usage) ==
    [P_screen |-> RDiv(p.P_screen_base
                       * Power(Get(usage.brightness, 500), p.P_screen_exp),
                       1000),
     P_CPU |-> p.P_cpu_idle
               + RDiv(p.P_cpu_peak
                      * Power(Get(usage.cpu_load, 500), p.P_cpu_exp), 1000),
     P_network |-> IF Get(usage.network, TRUE) THEN p.P_network ELSE 0,
     P_GPS |-> IF Get(usage.gps, TRUE) THEN p.P_gps ELSE 0,
     P_background |->
         IF Get(usage.background, TRUE) THEN p.P_background ELSE 0]

Components(p, usage) ==
    LET brightness == Get(usage.brightness, 500)
        cpu_load   == Get(usage.cpu_load, 500)
    IN  [P_screen |-> RDiv(p.P_screen_base
                           * Power(brightness, p.P_screen_exp), 1000),
         P_CPU |-> p.P_cpu_idle
                   + RDiv((p.P_cpu_peak - p.P_cpu_idle)
                          * Power(cpu_load, p.P_cpu_exp), 1000),
         P_network |-> IF Get(usage.network, TRUE) THEN p.P_network ELSE 0,
         P_GPS |-> IF Get(usage.gps, TRUE) THEN p.P_gps ELSE 0,
         P_background |->
             IF Get(usage.background, TRUE) THEN p.P_background ELSE 0]

compute_power(p, usage) ==
    LET c == Components(p, usage)
    IN  Max2(0, p.P_base + c.P_screen + c.P_CPU + c.P_network + c.P_GPS
                + c.P_background)

(***************************************************************************)
(* reset and step                                                          *)
(***************************************************************************)
\* a clamp that forgets the lower end
ClampUpperOnly(x) == Min2(1000000, x)

\* max(0.0, min(1.0, x))
Clamp01(x) == Max2(0, Min2(1000000, x))

\* a temperature update whose exchange term has the wrong sign
NextTemperatureAway(p, dt, P, Tcur, Tenv) ==
    SatAdd(Tcur,
           RDiv(SatMul(dt.n, SatAdd(P, SatMul(p.h, Tcur - Tenv))),
                dt.d * p.C_th))

\* self.T + dt_s * (P - h * (T - T_env)) / float(C_th), for C_th # 0
NextTemperature(p, dt, P, Tcur, Tenv) ==
    SatAdd(Tcur,
           RDiv(SatMul(dt.n, SatAdd(P, 0 - SatMul(p.h, Tcur - Tenv))),
                dt.d * p.C_th))

\* Q_Ah * math.exp(-k_temp * (T - T_ref))
CapacityAt(p, Tcur) ==
    MulDiv(p.Q_Ah,
           ExpMilli(RDiv(SatMul(0 - p.k_temp, Tcur - p.T_ref), 1000)), 1000)

\* an effective capacity with no floor
CapacityUnfloored(p, Tcur) == CapacityAt(p, Tcur)

\* the same, and then the floor at a tenth of Q_Ah
EffectiveCapacity(p, Tcur) == Max2(CapacityAt(p, Tcur), RDiv(p.Q_Ah, 10))

\* P / max(V_nom, 1e-6)
Current(p, P) == MulDiv(P, 1000000, Max2(p.V_nom, 1))

\* what one call of step does to the object and what it returns: a
\* division by zero raises where the code divides, after the assignments
\* made before it.  dSOC is -(I * dt_s) / (Q_eff * 3600), in ppm of mA s
\* over mAh: the factor 10^6 / 3600 is 2500 / 9.
step(p, st, dt, usage, ambient_T) ==
    LET P     == compute_power(p, usage)
        c     == Components(p, usage)
        Tenv1 == Get(ambient_T, st.T_env)
        T1    == NextTemperature(p, dt, P, st.T, Tenv1)
        Q_eff == EffectiveCapacity(p, T1)
        I     == Current(p, P)
        den   == SatMul(Q_eff, 9 * dt.d)
        dSOC  == 0 - MulDiv(SatMul(I, dt.n), 2500, den)
        SOC1  == Clamp01(SatAdd(st.SOC, dSOC))
    IN  IF p.C_th = 0
        THEN [SOC |-> st.SOC, T |-> st.T, T_env |-> Tenv1,
              res |-> Raised("ZeroDivisionError")]
        ELSE IF den = 0
        THEN [SOC |-> st.SOC, T |-> T1, T_env |-> Tenv1,
              res |-> Raised("ZeroDivisionError")]
        ELSE [SOC |-> SOC1, T |-> T1, T_env |-> Tenv1,
              res |-> [kind |-> "step", SOC |-> SOC1, T |-> T1, P |-> P,
                       I |-> I, Q_eff |-> Q_eff, P_screen |-> c.P_screen,
                       P_CPU |-> c.P_CPU, P_network |-> c.P_network,
                       P_GPS |-> c.P_GPS,
                       P_background |-> c.P_background]]

(***************************************************************************)
(* The schedule lookups                                                    *)
(***************************************************************************)
\* a default whose brightness is compute_power's 0.5 instead of 0.6
DefaultUsageDim == Usage(500, 500, TRUE, TRUE, TRUE)

\* the dictionary returned when no usage applies
DefaultUsage == Usage(600, 500, TRUE, TRUE, TRUE)

\* a segment that also matches at its end
SegContainsClosed(seg, time) ==
    /\ FLeq(Get(seg.start, FZero), time)
    /\ seg.end.has => FLeq(time, seg.end.v)

\* seg.get("start", 0) <= t < seg.get("end", float("inf"))
SegContains(seg, time) ==
    /\ FLeq(Get(seg.start, FZero), time)
    /\ seg.end.has => FLess(time, seg.end.v)

RECURSIVE ScanUsage(_, _, _)
ScanUsage(time, segs, i) ==
    IF i > Len(segs) THEN DefaultUsage
    ELSE IF SegContains(segs[i], time) THEN Get(segs[i].usage, DefaultUsage)
    ELSE ScanUsage(time, segs, i + 1)

get_usage_at_time(time, schedule) ==
    IF schedule.kind = "none" THEN DefaultUsage
    ELSE IF Len(schedule.segs) = 0 THEN DefaultUsage
    ELSE ScanUsage(time, schedule.segs, 1)

RECURSIVE ScanAmbient(_, _, _, _)
ScanAmbient(time, segs, i, Tenv) ==
    IF i > Len(segs) THEN Tenv
    ELSE IF SegContains(segs[i], time) THEN Get(segs[i].ambient_T, Tenv)
    ELSE ScanAmbient(time, segs, i + 1, Tenv)

get_ambient_at_time(time, schedule, Tenv) ==
    IF schedule.kind = "none" THEN Tenv
    ELSE IF schedule.kind = "list" THEN ScanAmbient(time, schedule.segs, 1, Tenv)
    ELSE IF schedule.kind = "dict" THEN Get(schedule.ambient_T, Tenv)
    ELSE Tenv

(***************************************************************************)
(* The calls                                                               *)
(***************************************************************************)
\* no object yet: the constructor is the first action, its arguments being
\* inputs like those of any other call
Init ==
    /\ pc = "new"
    /\ par = DefaultParams
    /\ SOC = 0
    /\ T = 0
    /\ T_env = 0
    /\ last_p_components = NoComps
    /\ t = FZero
    /\ traj = NoTraj
    /\ call = [op |-> "none"]
    /\ before = [op |-> "none"]
    /\ ret = NoRet
    /\ pre = NoSnapshot
    /\ calls = 0
    /\ phase = 0
    /\ saved = NoSaved

\* BatteryModel(...): no argument is checked
Construct(p) ==
    /\ pc = "new"
    /\ pc' = "idle"
    /\ par' = p
    /\ T_env' = p.T_env_init
    /\ T' = p.T_env_init
    /\ SOC' = 1000000
    /\ call' = [op |-> "init"]
    /\ before' = [op |-> "none"]
    /\ pre' = NoSnapshot
    /\ UNCHANGED << last_p_components, t, traj, ret, calls, phase, saved >>

\* reset(soc, T)
Reset(soc, temp) ==
    /\ pc = "idle"
    /\ SOC' = Clamp01(soc)
    /\ T' = Get(temp, T_env)
    /\ T_env' = Get(temp, T_env)
    /\ call' = [op |-> "reset", soc |-> soc, T |-> temp]
    /\ before' = [op |-> "none"]
    /\ ret' = NoRet
    /\ pre' = NoSnapshot
    /\ phase' = IF soc = 1000000 /\ ~temp.has
                THEN (IF phase \in {2, 4} THEN 3 ELSE 1)
                ELSE 0
    /\ saved' = IF soc = 1000000 /\ ~temp.has /\ phase \in {2, 4}
                THEN [call |-> call, ret |-> ret] ELSE NoSaved
    /\ UNCHANGED << pc, par, last_p_components, t, traj, calls >>

\* step(dt_s, usage, ambient_T), called from outside
Step(dt, usage, ambient_T) ==
    /\ pc = "idle"
    /\ calls < MaxCalls
    /\ \E r \in {step(par, Snapshot, dt, usage, ambient_T)} :
           /\ SOC' = r.SOC
           /\ T' = r.T
           /\ T_env' = r.T_env
           /\ ret' = r.res
    /\ last_p_components' = [has |-> TRUE, v |-> Components(par, usage)]
    /\ call' = [op |-> "step", dt_s |-> dt, usage |-> usage,
                ambient_T |-> ambient_T]
    /\ before' = call
    /\ pre' = Snapshot
    /\ calls' = calls + 1
    /\ phase' = 0
    /\ saved' = NoSaved
    /\ UNCHANGED << pc, par, t, traj >>

\* simulate(...) up to its loop: the lists are empty and t = 0.0
SimBegin(c) ==
    /\ pc = "idle"
    /\ calls < MaxCalls
    /\ pc' = "sim"
    /\ t' = FZero
    /\ traj' = NoTraj
    /\ call' = c
    /\ before' = call
    /\ ret' = NoRet
    /\ pre' = Snapshot
    /\ calls' = calls + 1
    /\ phase' = IF phase = 3 /\ saved.call = c THEN 3
                ELSE IF phase \in {1, 3} THEN 1
                ELSE 0
    /\ saved' = IF phase = 3 /\ saved.call = c THEN saved ELSE NoSaved
    /\ UNCHANGED << par, SOC, T, T_env, last_p_components >>

\* the seventeen lists after one more pass of the loop
AppendAll(tr, time, usage, ambient, res) ==
    [time_s |-> Append(tr.time_s, time),
     SOC |-> Append(tr.SOC, res.SOC),
     temp_C |-> Append(tr.temp_C, res.T),
     P_W |-> Append(tr.P_W, res.P),
     I_A |-> Append(tr.I_A, res.I),
     Q_eff_Ah |-> Append(tr.Q_eff_Ah, res.Q_eff),
     brightness |-> Append(tr.brightness, Get(usage.brightness, 500)),
     cpu_load |-> Append(tr.cpu_load, Get(usage.cpu_load, 500)),
     network |-> Append(tr.network, Get(usage.network, TRUE)),
     gps |-> Append(tr.gps, Get(usage.gps, TRUE)),
     background |-> Append(tr.background, Get(usage.background, TRUE)),
     ambient_T |-> Append(tr.ambient_T, ambient),
     P_screen_W |-> Append(tr.P_screen_W, res.P_screen),
     P_CPU_W |-> Append(tr.P_CPU_W, res.P_CPU),
     P_network_W |-> Append(tr.P_network_W, res.P_network),
     P_GPS_W |-> Append(tr.P_GPS_W, res.P_GPS),
     P_background_W |-> Append(tr.P_background_W, res.P_background)]

\* one pass through the body of `while t < duration_s`; an exception in
\* step ends the call
SimIter ==
    /\ pc = "sim"
    /\ FLess(t, FloatOf(call.duration_s.n, call.duration_s.d))
    /\ Len(traj.time_s) < MaxIter
    /\ \E usage \in {get_usage_at_time(t, call.usage_schedule)},
          ambient \in {get_ambient_at_time(t, call.ambient_schedule, T_env)} :
         \E r \in {step(par, Snapshot, call.dt_s, usage, Some(ambient))} :
           /\ SOC' = r.SOC
           /\ T' = r.T
           /\ T_env' = r.T_env
           /\ last_p_components' = [has |-> TRUE, v |-> Components(par, usage)]
           /\ IF r.res.kind = "raise"
              THEN /\ pc' = "idle"
                   /\ ret' = r.res
                   /\ traj' = NoTraj
                   /\ t' = FZero
                   /\ phase' = 0
                   /\ saved' = NoSaved
              ELSE /\ traj' = AppendAll(traj, t, usage, ambient, r.res)
                   /\ t' = FAdd(t, FloatOf(call.dt_s.n, call.dt_s.d))
                   /\ UNCHANGED << pc, ret, phase, saved >>
    /\ UNCHANGED << par, call, before, pre, calls >>

\* the loop condition fails: simulate returns its lists
SimReturn ==
    /\ pc = "sim"
    /\ ~FLess(t, FloatOf(call.duration_s.n, call.duration_s.d))
    /\ pc' = "idle"
    /\ ret' = [kind |-> "traj", v |-> traj]
    /\ traj' = NoTraj
    /\ t' = FZero
    /\ phase' = IF phase = 1 THEN 2 ELSE IF phase = 3 THEN 4 ELSE 0
    /\ UNCHANGED << par, SOC, T, T_env, last_p_components, call, before,
                    pre, calls, saved >>

Next ==
    \/ \E p \in ParamSets : Construct(p)
    \/ \E soc \in ResetSocs, temp \in ResetTemps : Reset(soc, temp)
    \/ \E dt \in StepDts, usage \in StepUsages, a \in StepAmbients :
           Step(dt, usage, a)
    \/ \E c \in SimCalls : SimBegin(c)
    \/ SimIter
    \/ SimReturn

Spec == Init /\ [][Next]_vars

(***************************************************************************)
(* What the properties below read off a state.                             *)
(***************************************************************************)
\* the lists of the simulate call that is running or has just returned
Entries ==
    IF pc = "sim" THEN traj
    ELSE IF ret.kind = "traj" THEN ret.v
    ELSE NoTraj

EntryIndex == 1..Len(Entries.time_s)

\* the usage recorded for pass i of the loop
UsageEntry(i) ==
    << Entries.brightness[i], Entries.cpu_load[i], Entries.network[i],
       Entries.gps[i], Entries.background[i] >>

\* what the loop records of a usage dictionary
Recorded(u) ==
    << Get(u.brightness, 500), Get(u.cpu_load, 500), Get(u.network, TRUE),
       Get(u.gps, TRUE), Get(u.background, TRUE) >>

\* the stored ambient temperature when pass i of the loop begins: every
\* pass hands its ambient value to step, which stores it
StoredAmbientBefore(i) ==
    IF i = 1 THEN pre.T_env ELSE Entries.ambient_T[i - 1]

\* start <= time < end, an absent start being 0 and an absent end infinity
Covers(seg, time) ==
    /\ ~FLess(time, IF seg.start.has THEN seg.start.v ELSE FZero)
    /\ seg.end.has => FLess(time, seg.end.v)

\* the position of the first segment of the list that covers time, if any
FirstCovering(segs, time) ==
    { k \in 1..Len(segs) :
        /\ Covers(segs[k], time)
        /\ \A j \in 1..(k - 1) : ~Covers(segs[j], time) }

NoneCovers(schedule, time) ==
    \/ schedule.kind = "none"
    \/ /\ schedule.kind = "list"
       /\ \A k \in 1..Len(schedule.segs) : ~Covers(schedule.segs[k], time)

\* ceil(duration / dt) for dt > 0
CeilDiv(duration, dt) ==
    (duration.n * dt.d + duration.d * dt.n - 1) \div (duration.d * dt.n)

InUnit(x) == 0 <= x /\ x <= 1000000

(***************************************************************************)
(* The properties.                                                         *)
(***************************************************************************)
\* C1: in every reachable state the stored SOC lies in [0, 1], and so does
\* the SOC of every result of step and of every entry of simulate's SOC
\* series; reset(soc) stores soc clamped to [0, 1].
C1_SocInUnitInterval ==
    /\ InUnit(SOC)
    /\ ret.kind = "step" => InUnit(ret.SOC)
    /\ \A i \in EntryIndex : InUnit(Entries.SOC[i])
    /\ call.op = "reset" =>
           SOC = (IF call.soc < 0 THEN 0
                  ELSE IF call.soc > 1000000 THEN 1000000
                  ELSE call.soc)

\* C1 witness: a step that draws current from a battery reset to a
\* negative SOC, stored as 0: the SOC stays at 0.
C1_ClampAtWork ==
    /\ call.op = "step"
    /\ ret.kind = "step"
    /\ call.dt_s.n > 0
    /\ ret.I > 0
    /\ pre.SOC = 0
    /\ ret.SOC = 0

\* C2: a step whose total power is non-negative never leaves the SOC
\* higher than it found it.
C2_NoCharging ==
    (call.op = "step" /\ ret.kind = "step" /\ ret.P >= 0) => SOC <= pre.SOC

\* C3: the effective capacity in every result of step, and in every entry
\* of simulate's Q_eff series, is at least a tenth of the nominal capacity.
C3_CapacityFloor ==
    /\ ret.kind = "step" => 10 * ret.Q_eff >= par.Q_Ah
    /\ \A i \in EntryIndex : 10 * Entries.Q_eff_Ah[i] >= par.Q_Ah

\* C3 witness: a step at a body temperature so high that the exponential
\* term alone is below the floor, on a battery of positive capacity.
C3_FloorAtWork ==
    /\ ret.kind = "step"
    /\ par.Q_Ah > 0
    /\ 10 * CapacityAt(par, ret.T) < par.Q_Ah
    /\ 10 * ret.Q_eff = par.Q_Ah

\* C4: simulate(duration, dt, ...) with dt > 0 returns exactly
\* ceil(duration / dt) entries, all series of that length, the times
\* strictly increasing from 0 and all below duration.
C4_EntryCount ==
    (call.op = "simulate" /\ ret.kind = "traj" /\ call.dt_s.n > 0) =>
        /\ Len(ret.v.time_s) = CeilDiv(call.duration_s, call.dt_s)
        /\ \A key \in DOMAIN ret.v : Len(ret.v[key]) = Len(ret.v.time_s)
        /\ \A i \in EntryIndex :
               /\ FLess(ret.v.time_s[i],
                        FloatOf(call.duration_s.n, call.duration_s.d))
               /\ i = 1 => ret.v.time_s[i] = FZero
               /\ i > 1 => FLess(ret.v.time_s[i - 1], ret.v.time_s[i])

\* C5: step and simulate with dt <= 0 fail with InvalidStep: nothing is
\* executed, SOC, temperature and ambient are as before the call, and
\* simulate is not in its loop.
C5_NonPositiveStepRejected ==
    (call.op \in {"step", "simulate"} /\ call.dt_s.n <= 0) =>
        /\ ret = Raised("InvalidStep")
        /\ pc = "idle"
        /\ Snapshot = pre

\* C6: with a list of segments, the usage and the ambient recorded for a
\* pass at time t are the payload of the first segment in list order whose
\* half-open interval [start, end) covers t.
C6_FirstCoveringSegment ==
    \A i \in EntryIndex :
        /\ call.usage_schedule.kind = "list" =>
               \A k \in FirstCovering(call.usage_schedule.segs,
                                      Entries.time_s[i]) :
                   call.usage_schedule.segs[k].usage.has =>
                       UsageEntry(i) =
                           Recorded(call.usage_schedule.segs[k].usage.v)
        /\ call.ambient_schedule.kind = "list" =>
               \A k \in FirstCovering(call.ambient_schedule.segs,
                                      Entries.time_s[i]) :
                   call.ambient_schedule.segs[k].ambient_T.has =>
                       Entries.ambient_T[i] =
                           call.ambient_schedule.segs[k].ambient_T.v

\* C6 witness: a pass at a time t where the segment chosen starts at t,
\* comes first in the list though an earlier start follows it, another
\* segment ends at t, and a later segment with another payload covers t
\* as well.
C6_BoundaryAndOverlap ==
    \E i \in EntryIndex :
        /\ call.usage_schedule.kind = "list"
        /\ \E j, k, m \in 1..Len(call.usage_schedule.segs) :
               /\ j < k
               /\ j \in FirstCovering(call.usage_schedule.segs,
                                      Entries.time_s[i])
               /\ call.usage_schedule.segs[j].start = Some(Entries.time_s[i])
               /\ call.usage_schedule.segs[m].end = Some(Entries.time_s[i])
               /\ FLess(call.usage_schedule.segs[m].start.v,
                        call.usage_schedule.segs[j].start.v)
               /\ Covers(call.usage_schedule.segs[k], Entries.time_s[i])
               /\ call.usage_schedule.segs[k].usage
                      # call.usage_schedule.segs[j].usage
               /\ UsageEntry(i) =
                      Recorded(call.usage_schedule.segs[j].usage.v)

\* C7: when the schedule is None or empty, or no segment covers the time of
\* a pass, the usage recorded is brightness 0.6, CPU load 0.5, network, GPS
\* and background on, and the ambient recorded is the ambient temperature
\* stored when the pass began.
C7_Defaults ==
    \A i \in EntryIndex :
        /\ NoneCovers(call.usage_schedule, Entries.time_s[i]) =>
               UsageEntry(i) = << 600, 500, TRUE, TRUE, TRUE >>
        /\ NoneCovers(call.ambient_schedule, Entries.time_s[i]) =>
               Entries.ambient_T[i] = StoredAmbientBefore(i)

\* C7 witness: a pass, not the first, at a time that no segment of either
\* list covers, when the stored ambient is no longer the constructor's.
C7_OutsideEverySegment ==
    \E i \in EntryIndex :
        /\ i > 1
        /\ call.usage_schedule.kind = "list"
        /\ Len(call.usage_schedule.segs) > 0
        /\ NoneCovers(call.usage_schedule, Entries.time_s[i])
        /\ call.ambient_schedule.kind = "list"
        /\ Len(call.ambient_schedule.segs) > 0
        /\ NoneCovers(call.ambient_schedule, Entries.time_s[i])
        /\ StoredAmbientBefore(i) # par.T_env_init
        /\ Entries.ambient_T[i] = StoredAmbientBefore(i)
        /\ Entries.brightness[i] = 600

\* C8: when simulate is given a plain number as its ambient schedule, every
\* entry of the ambient series is that number.
C8_PlainNumberAmbient ==
    \A i \in EntryIndex :
        call.ambient_schedule.kind = "float" =>
            Entries.ambient_T[i] = call.ambient_schedule.v

\* C9: in reset(1.0); simulate(args); reset(1.0); simulate(args) the second
\* simulate returns what the first returned.
C9_RepeatableRun == phase = 4 => ret = saved.ret

\* C10: an object whose nominal capacity, nominal voltage or thermal
\* capacitance is <= 0 is never constructed, so never stepped.
C10_InvalidParameterRejected ==
    pc # "new" => par.Q_Ah > 0 /\ par.V_nom > 0 /\ par.C_th > 0

(***************************************************************************)
(* C11                                                                     *)
(***************************************************************************)
\* the default object, reset(1.0, 25.0), then step(60, usage) with
\* brightness 0.9, load 0.8 and the three flags set, which returned
DefaultHeavyStep ==
    /\ par = DefaultParams
    /\ before = [op |-> "reset", soc |-> 1000000, T |-> Some(25000)]
    /\ call.op = "step"
    /\ call.dt_s = Ratio(60, 1)
    /\ call.usage = UHigh
    /\ ret.kind = "step"

\* C11, with its figures corrected: in that scenario the reported power is
\* base + screen * brightness + (idle + (peak - idle) * load) + network
\* + positioning + background, which is 1.550 W, and the reported current
\* is power / voltage, which is 0.403 A to three decimals
C11_PowerAndCurrent ==
    DefaultHeavyStep =>
        /\ ret.P = 200 + RDiv(300 * 900, 1000)
                       + (100 + RDiv((900 - 100) * 800, 1000))
                       + 250 + 40 + 50
        /\ ret.P = 1550
        /\ ret.I = RDiv(ret.P * 1000000, 3850000)
        /\ ret.I = 403

\* C11, its case: the scenario has run from reset(1.0, 25.0) and reported
\* the five components that add up, with the base power, to the total
C11_ScenarioRun ==
    /\ DefaultHeavyStep
    /\ pre = [SOC |-> 1000000, T |-> 25000, T_env |-> 25000]
    /\ ret.P_screen = 270
    /\ ret.P_CPU = 740
    /\ ret.P_network + ret.P_GPS + ret.P_background = 340
    /\ ret.P = 1550

\* C11 as stated: in that scenario the reported power is 1.676 W and the
\* reported current is 0.435 A
C11_AsStated == DefaultHeavyStep => ret.P = 1676 /\ ret.I = 435

(***************************************************************************)
(* C12                                                                     *)
(***************************************************************************)
\* the last call was a step with dt > 0 and a total power of 0 that left
\* the ambient temperature as it was, and it returned
ColdStep ==
    /\ call.op = "step"
    /\ call.dt_s.n > 0
    /\ compute_power(par, call.usage) = 0
    /\ ret.kind = "step"
    /\ T_env = pre.T_env

\* the temperature is no farther from ambient than before the step
NoFarther == Abs(T - T_env) <= Abs(pre.T - T_env)

\* the temperature is not on the other side of ambient
NoOvershoot ==
    /\ pre.T >= T_env => T >= T_env
    /\ pre.T <= T_env => T <= T_env

\* C12, restricted to the steps for which it holds: with the power at 0 and
\* the ambient temperature constant, a step with 0 < dt < C_th / h leaves
\* the temperature no farther from ambient and on the same side of it
C12_ApproachesAmbient ==
    ColdStep /\ call.dt_s.n * par.h < call.dt_s.d * par.C_th
        => NoFarther /\ NoOvershoot

\* C12, its case: a second step of 60 s at power 0 under the ambient the
\* first step set has brought the temperature strictly closer to ambient
\* without reaching it
C12_CoolingTowardAmbient ==
    /\ ColdStep
    /\ before.op = "step"
    /\ call.dt_s = Ratio(60, 1)
    /\ T # T_env
    /\ Abs(T - T_env) < Abs(pre.T - T_env)
    /\ NoOvershoot

\* C12 as stated: the same for a step with any dt > 0
C12_AnyPositiveStep == ColdStep => NoFarther /\ NoOvershoot
====
